---- MODULE Spec2Model ----
(***************************************************************************)
(* API Management Tag: the resource-identifier codec (parse/tag.go) and    *)
(* the create/read/update/delete handlers of the azurerm_api_management_tag*)
(* resource (api_management_tag_resource.go).                              *)
(*                                                                         *)
(* A string is a sequence of atoms.  The atom "/" is the path separator;   *)
(* every other atom is an indivisible run of characters without "/".       *)
(* The empty string is <<>>.                                               *)
(***************************************************************************)
EXTENDS Integers, Sequences, FiniteSets, TLC

VARIABLES
    identity,   \* codec: the four-field identity last rendered
    base,       \* codec: the string before any edit was applied to it
    input,      \* codec: the string handed to TagID
    edits,      \* codec: the edits applied to base, in order
    parsed,     \* codec: what TagID returned for input (or NotParsed)
    d,          \* reconciler: ResourceData of each resource instance
    remote,     \* reconciler: the tags held by the remote API, by address
    pc,         \* reconciler: position of each instance's running handler
    op,         \* reconciler: the handler each instance runs or ran last
    calls,      \* reconciler: remote calls issued by that handler, in order
    resp,       \* reconciler: the last remote response the handler received
    result      \* reconciler: what the handler returned

codecVars == <<identity, base, input, edits, parsed>>
recVars == <<d, remote, pc, op, calls, resp, result>>
vars == <<identity, base, input, edits, parsed, d, remote, pc, op, calls, resp, result>>

\* Bounds of the model.
MaxEdits == 2
MaxPairs == 6

Slash == "/"
EmptyStr == <<>>

(***************************************************************************)
(* Values the inputs are drawn from.  Every value is a non-empty string    *)
(* without "/" (what the schema validators admit).                         *)
(***************************************************************************)
SubscriptionIds == {<<"sub1">>}
ResourceGroups == {<<"rg1">>}
ServiceNames == {<<"svc1">>}
Names == {<<"tag1">>, <<"Tag2">>}
DisplayNames == {<<"Test Tag">>, <<"Test Updated Tag">>}

Identities ==
    [subscriptionId : SubscriptionIds, resourceGroup : ResourceGroups,
     serviceName : ServiceNames, name : Names]

(***************************************************************************)
(* Case folding of one atom (strings.ToLower restricted to the alphabet of *)
(* the model) and of a string.                                             *)
(***************************************************************************)
LowerAtom(a) ==
    CASE a = "Subscriptions" -> "subscriptions"
      [] a = "resourceGroups" -> "resourcegroups"
      [] a = "Providers" -> "providers"
      [] a = "Service" -> "service"
      [] a = "TAGS" -> "tags"
      [] a = "Operations" -> "operations"
      [] a = "Tag2" -> "tag2"
      [] OTHER -> a

ToLower(s) == [i \in 1..Len(s) |-> LowerAtom(s[i])]

\* strings.TrimPrefix(s, "/") and strings.TrimSuffix(s, "/")
TrimPrefix(s) == IF Len(s) > 0 /\ s[1] = Slash THEN Tail(s) ELSE s
TrimSuffix(s) == IF Len(s) > 0 /\ s[Len(s)] = Slash THEN SubSeq(s, 1, Len(s) - 1) ELSE s

\* strings.Split(s, "/"): the components between separators, empty ones kept.
RECURSIVE SplitRec(_, _, _)
SplitRec(s, cur, acc) ==
    IF s = <<>> THEN Append(acc, cur)
    ELSE IF Head(s) = Slash THEN SplitRec(Tail(s), <<>>, Append(acc, cur))
    ELSE SplitRec(Tail(s), Append(cur, Head(s)), acc)

Split(s) == SplitRec(s, <<>>, <<>>)

\* strings.Join(components, "/")
RECURSIVE Join(_)
Join(cs) ==
    IF cs = <<>> THEN <<>>
    ELSE IF Len(cs) = 1 THEN cs[1]
    ELSE cs[1] \o <<Slash>> \o Join(Tail(cs))

(***************************************************************************)
(* parse.TagId, NewTagID and TagId.ID                                      *)
(***************************************************************************)
TagId == [SubscriptionId : Seq(STRING), ResourceGroup : Seq(STRING), Name : Seq(STRING)]

NewTagID(subscriptionId, resourceGroup, name) ==
    [SubscriptionId |-> subscriptionId, ResourceGroup |-> resourceGroup, Name |-> name]

ID(id) ==
    <<Slash, "subscriptions", Slash>> \o id.SubscriptionId
        \o <<Slash, "resourceGroups", Slash>> \o id.ResourceGroup
        \o <<Slash, "providers", Slash, "Microsoft.AnalysisServices", Slash, "tags", Slash>>
        \o id.Name

(***************************************************************************)
(* azure.ParseAzureResourceID, ResourceID.PopSegment and                   *)
(* ResourceID.ValidateNoEmptySegments (helpers/azure): the path is split   *)
(* into key/value pairs, scanned pairwise into a mapping whose keys are    *)
(* matched without regard to case; the subscriptions, resourceGroups and   *)
(* providers keys are taken out of the mapping into fields of their own.   *)
(***************************************************************************)
EmptyPath == [k \in {} |-> <<>>]

RECURSIVE ComponentMap(_, _)
ComponentMap(components, n) ==
    IF n = 0 THEN EmptyPath
    ELSE LET m == ComponentMap(components, n - 1)
             key == ToLower(components[2 * n - 1])
             value == components[2 * n]
         IN  [k \in DOMAIN m \cup {key} |-> IF k = key THEN value ELSE m[k]]

Without(m, key) == [k \in DOMAIN m \ {key} |-> m[k]]

Lookup(m, key) == IF key \in DOMAIN m THEN m[key] ELSE EmptyStr

ParseError(msg) ==
    [err |-> msg, SubscriptionID |-> EmptyStr, ResourceGroup |-> EmptyStr,
     Provider |-> EmptyStr, Path |-> EmptyPath]

ParseAzureResourceID(in) ==
    IF in = EmptyStr \/ Head(in) # Slash THEN ParseError("Cannot parse Azure ID")
    ELSE
      LET components == Split(TrimSuffix(TrimPrefix(in)))
      IN  IF Len(components) % 2 # 0
            THEN ParseError("The number of path segments is not divisible by 2")
          ELSE IF \E i \in 1..Len(components) : components[i] = EmptyStr
            THEN ParseError("Key/Value cannot be empty strings")
          ELSE
            LET m == ComponentMap(components, Len(components) \div 2)
            IN  [err |-> "",
                 SubscriptionID |-> Lookup(m, <<"subscriptions">>),
                 ResourceGroup |-> Lookup(m, <<"resourcegroups">>),
                 Provider |-> Lookup(m, <<"providers">>),
                 Path |-> Without(Without(Without(m, <<"subscriptions">>),
                                          <<"resourcegroups">>), <<"providers">>)]

\* PopSegment returns the value, the error and the ResourceID without the segment.
PopSegment(id, name) ==
    IF ToLower(name) \in DOMAIN id.Path
      THEN [val |-> id.Path[ToLower(name)], err |-> "",
            id |-> [id EXCEPT !.Path = Without(id.Path, ToLower(name))]]
      ELSE [val |-> EmptyStr, err |-> "ID was missing the element", id |-> id]

ValidateNoEmptySegments(id) ==
    IF DOMAIN id.Path = {} THEN ""
    ELSE "ID contained more segments than a Resource ID requires"

(***************************************************************************)
(* parse.TagID                                                             *)
(***************************************************************************)
NoTagId == NewTagID(EmptyStr, EmptyStr, EmptyStr)
Failed(msg) == [ok |-> FALSE, err |-> msg, id |-> NoTagId]

\* TagID without the check of lines 64-66.
TagID_NoValidate(in) ==
    LET id == ParseAzureResourceID(in)
    IN  IF id.err # "" THEN Failed(id.err)
        ELSE IF id.SubscriptionID = EmptyStr
          THEN Failed("ID was missing the 'subscriptions' element")
        ELSE IF id.ResourceGroup = EmptyStr
          THEN Failed("ID was missing the 'resourceGroups' element")
        ELSE
          LET popped == PopSegment(id, <<"tags">>)
          IN  IF popped.err # "" THEN Failed(popped.err)
              ELSE [ok |-> TRUE, err |-> "",
                    id |-> [SubscriptionId |-> id.SubscriptionID,
                            ResourceGroup |-> id.ResourceGroup,
                            Name |-> popped.val]]

\* TagID without the check of lines 56-58.
TagID_NoResourceGroupCheck(in) ==
    LET id == ParseAzureResourceID(in)
    IN  IF id.err # "" THEN Failed(id.err)
        ELSE IF id.SubscriptionID = EmptyStr
          THEN Failed("ID was missing the 'subscriptions' element")
        ELSE
          LET popped == PopSegment(id, <<"tags">>)
          IN  IF popped.err # "" THEN Failed(popped.err)
              ELSE IF ValidateNoEmptySegments(popped.id) # ""
                THEN Failed(ValidateNoEmptySegments(popped.id))
              ELSE [ok |-> TRUE, err |-> "",
                    id |-> [SubscriptionId |-> id.SubscriptionID,
                            ResourceGroup |-> id.ResourceGroup,
                            Name |-> popped.val]]

\* TagID folding the case of the name it returns.
TagID_LowerName(in) ==
    LET id == ParseAzureResourceID(in)
    IN  IF id.err # "" THEN Failed(id.err)
        ELSE IF id.SubscriptionID = EmptyStr
          THEN Failed("ID was missing the 'subscriptions' element")
        ELSE IF id.ResourceGroup = EmptyStr
          THEN Failed("ID was missing the 'resourceGroups' element")
        ELSE
          LET popped == PopSegment(id, <<"tags">>)
          IN  IF popped.err # "" THEN Failed(popped.err)
              ELSE IF ValidateNoEmptySegments(popped.id) # ""
                THEN Failed(ValidateNoEmptySegments(popped.id))
              ELSE [ok |-> TRUE, err |-> "",
                    id |-> [SubscriptionId |-> id.SubscriptionID,
                            ResourceGroup |-> id.ResourceGroup,
                            Name |-> ToLower(popped.val)]]

TagID(in) ==
    LET id == ParseAzureResourceID(in)
    IN  IF id.err # "" THEN Failed(id.err)
        ELSE IF id.SubscriptionID = EmptyStr
          THEN Failed("ID was missing the 'subscriptions' element")
        ELSE IF id.ResourceGroup = EmptyStr
          THEN Failed("ID was missing the 'resourceGroups' element")
        ELSE
          LET popped == PopSegment(id, <<"tags">>)
          IN  IF popped.err # "" THEN Failed(popped.err)
              ELSE IF ValidateNoEmptySegments(popped.id) # ""
                THEN Failed(ValidateNoEmptySegments(popped.id))
              ELSE [ok |-> TRUE, err |-> "",
                    id |-> [SubscriptionId |-> id.SubscriptionID,
                            ResourceGroup |-> id.ResourceGroup,
                            Name |-> popped.val]]

(***************************************************************************)
(* The identifier the remote API reports for a tag (the "id" of the Get    *)
(* response): the canonical path of the resource under its service.        *)
(***************************************************************************)
RemoteID(subscriptionId, resourceGroup, serviceName, name) ==
    <<Slash, "subscriptions", Slash>> \o subscriptionId
        \o <<Slash, "resourceGroups", Slash>> \o resourceGroup
        \o <<Slash, "providers", Slash, "Microsoft.ApiManagement", Slash, "service", Slash>>
        \o serviceName \o <<Slash, "tags", Slash>> \o name

(***************************************************************************)
(* Codec specification: a string is rendered from an identity or received  *)
(* from elsewhere, edited pair by pair, and handed to TagID.               *)
(***************************************************************************)
NotParsed == [ok |-> FALSE, err |-> "not parsed", id |-> NoTagId]

ExtraKeys == {<<"operations">>, <<"service">>, <<"tags">>, <<"TAGS">>, <<"resourceGroups">>}
ExtraValues == {<<"x">>}

\* The same key in another letter case.
OtherCase(a) ==
    CASE a = "subscriptions" -> "Subscriptions"
      [] a = "resourceGroups" -> "resourcegroups"
      [] a = "providers" -> "Providers"
      [] a = "service" -> "Service"
      [] a = "tags" -> "TAGS"
      [] a = "operations" -> "Operations"
      [] OTHER -> a

\* The key/value components of a path that starts with "/".
Components(s) == Split(TrimPrefix(s))
NumPairs(s) == Len(Components(s)) \div 2
Editable(s) == s # EmptyStr /\ Head(s) = Slash /\ Len(Components(s)) % 2 = 0
KeyAt(s, i) == Components(s)[2 * i - 1]
ValueAt(s, i) == Components(s)[2 * i]

ReplaceAt(cs, j, c) == [k \in 1..Len(cs) |-> IF k = j THEN c ELSE cs[k]]
RemovePair(cs, i) == SubSeq(cs, 1, 2 * i - 2) \o SubSeq(cs, 2 * i + 1, Len(cs))

Received(i) ==
    {RemoteID(i.subscriptionId, i.resourceGroup, i.serviceName, i.name),
     EmptyStr, <<Slash>>, <<"tags", Slash>> \o i.name}

Render(i) ==
    /\ base.from = "none" \/ parsed # NotParsed
    /\ identity' = i
    /\ input' = ID(NewTagID(i.subscriptionId, i.resourceGroup, i.name))
    /\ base' = [s |-> input', from |-> "render"]
    /\ edits' = <<>>
    /\ parsed' = NotParsed
    /\ UNCHANGED recVars

Receive(i, s) ==
    /\ base.from = "none" \/ parsed # NotParsed
    /\ s \in Received(i)
    /\ identity' = i
    /\ input' = s
    /\ base' = [s |-> s, from |-> IF s = RemoteID(i.subscriptionId, i.resourceGroup,
                                                   i.serviceName, i.name)
                                  THEN "remote" ELSE "other"]
    /\ edits' = <<>>
    /\ parsed' = NotParsed
    /\ UNCHANGED recVars

Edit(kind, key, s) ==
    /\ Len(edits) < MaxEdits
    /\ input' = s
    /\ edits' = Append(edits, [kind |-> kind, key |-> key])
    /\ parsed' = NotParsed
    /\ UNCHANGED <<identity, base>>
    /\ UNCHANGED recVars

AppendPair(k, v) ==
    /\ base.from # "none"
    /\ Edit("append", k, input \o <<Slash>> \o k \o <<Slash>> \o v)

DropPair(i) ==
    /\ Editable(input) /\ i \in 1..NumPairs(input)
    /\ Edit("drop", KeyAt(input, i), <<Slash>> \o Join(RemovePair(Components(input), i)))

EmptyValue(i) ==
    /\ Editable(input) /\ i \in 1..NumPairs(input)
    /\ ValueAt(input, i) # EmptyStr
    /\ Edit("empty", KeyAt(input, i),
            <<Slash>> \o Join(ReplaceAt(Components(input), 2 * i, EmptyStr)))

RecaseKey(i) ==
    /\ Editable(input) /\ i \in 1..NumPairs(input)
    /\ Len(KeyAt(input, i)) = 1
    /\ OtherCase(KeyAt(input, i)[1]) # KeyAt(input, i)[1]
    /\ Edit("recase", KeyAt(input, i),
            <<Slash>> \o Join(ReplaceAt(Components(input), 2 * i - 1,
                                        <<OtherCase(KeyAt(input, i)[1])>>)))

Parse ==
    /\ base.from # "none"
    /\ parsed = NotParsed
    /\ parsed' = TagID(input)
    /\ UNCHANGED <<identity, base, input, edits>>
    /\ UNCHANGED recVars

(***************************************************************************)
(* Reconciler: the handlers of azurerm_api_management_tag.                 *)
(***************************************************************************)
Res == {"r1", "r2"}

\* The subscription the client is configured for.
Subscription == <<"sub1">>

\* The configuration of a resource block: d.Get("tag_id") and so on.
\* Recorded state before anything is set.
NoState ==
    [tag_id |-> EmptyStr, resource_group_name |-> EmptyStr,
     api_management_name |-> EmptyStr, display_name |-> EmptyStr]

\* The address of a remote call: (resourceGroup, serviceName, tagID).
Addr(resourceGroup, serviceName, tagID) ==
    [resourceGroup |-> resourceGroup, serviceName |-> serviceName, name |-> tagID]

ConfigAddr(dr) ==
    Addr(dr.config.resource_group_name, dr.config.api_management_name, dr.config.tag_id)

Addresses ==
    [resourceGroup : {<<"rg1">>}, serviceName : ServiceNames, name : Names]

Absent == [exists |-> FALSE, displayName |-> EmptyStr]
Present(displayName) == [exists |-> TRUE, displayName |-> displayName]
RemoteAt(a) == IF a \in DOMAIN remote THEN remote[a] ELSE Absent

(***************************************************************************)
(* Responses of the remote client.  err is "" (no error), "notfound" (the  *)
(* response was a 404) or "other" (any other failure: transport error,     *)
(* timeout, cancellation).  ID and TagContractProperties are pointers:     *)
(* hasID / hasProps tell whether they are non-nil.                         *)
(***************************************************************************)
Response(err, hasID, id, hasProps, displayName) ==
    [err |-> err, hasID |-> hasID, ID |-> id, hasProps |-> hasProps,
     DisplayName |-> displayName]

NoResponse == Response("none yet", FALSE, EmptyStr, FALSE, EmptyStr)
ErrOther == Response("other", FALSE, EmptyStr, FALSE, EmptyStr)
ErrNotFound == Response("notfound", FALSE, EmptyStr, FALSE, EmptyStr)

\* What TagClient.Get may answer for address a.
GetResponses(a) ==
    {ErrOther} \cup
    IF RemoteAt(a).exists
      THEN LET rid == RemoteID(Subscription, a.resourceGroup, a.serviceName, a.name)
               dn == RemoteAt(a).displayName
           IN  {Response("", TRUE, rid, TRUE, dn),      \* the full record
                Response("", TRUE, rid, FALSE, EmptyStr), \* no properties
                Response("", FALSE, EmptyStr, TRUE, dn),  \* no id
                Response("", TRUE, EmptyStr, TRUE, dn)}   \* an empty id
      ELSE {ErrNotFound}

\* What TagClient.Delete may answer for address a.
DeleteResponses(a) ==
    {ErrOther} \cup
    IF RemoteAt(a).exists THEN {Response("", FALSE, EmptyStr, FALSE, EmptyStr)}
    ELSE {ErrNotFound}

\* utils.ResponseWasNotFound
ResponseWasNotFound(rsp) == rsp.err = "notfound"

Call(name, a) == [call |-> name, addr |-> a]

(***************************************************************************)
(* resourceApiManagementTagCreateUpdate, one operator per remote call.     *)
(* Each returns what the handler does next: "continue" or the error it     *)
(* returns.                                                                *)
(***************************************************************************)
\* The existence check without the test of the id (lines 70-72).
PrecheckStep_NoGuard(existing) ==
    IF existing.err # "" /\ ~ResponseWasNotFound(existing) THEN "RemoteCallFailed"
    ELSE "continue"

\* The existence check with every failure of its Get treated like a 404.
PrecheckStep_SwallowsErrors(existing) ==
    IF existing.err # "" THEN "continue"
    ELSE IF existing.hasID /\ existing.ID # EmptyStr THEN "AlreadyExists"
    ELSE "continue"

\* lines 62-73: the existence check of a new resource
PrecheckStep(existing) ==
    IF existing.err # "" /\ ~ResponseWasNotFound(existing) THEN "RemoteCallFailed"
    ELSE IF existing.hasID /\ existing.ID # EmptyStr THEN "AlreadyExists"
    ELSE "continue"

\* What client.CreateOrUpdate may answer: a failure, a not-found (the service
\* that would hold the tag does not exist) or success.
PutResponses == {ErrOther, ErrNotFound, Response("", FALSE, EmptyStr, FALSE, EmptyStr)}

\* lines 81-83: the create-or-update call
PutStep(rsp) == IF rsp.err # "" THEN "RemoteCallFailed" ELSE "continue"

\* The confirming Get with d.SetId moved before the test for a nil id.
ConfirmStep_SetIdBeforeCheck(dr, rsp) ==
    IF rsp.err # "" THEN [d |-> dr, ret |-> "RemoteCallFailed"]
    ELSE [d |-> [dr EXCEPT !.Id = rsp.ID, !.origin = "CreateUpdate"],
          ret |-> IF ~rsp.hasID THEN "EmptyIdentity" ELSE "continue"]

\* lines 85-92: the confirming Get and d.SetId
ConfirmStep(dr, rsp) ==
    IF rsp.err # "" THEN [d |-> dr, ret |-> "RemoteCallFailed"]
    ELSE IF ~rsp.hasID THEN [d |-> dr, ret |-> "EmptyIdentity"]
    ELSE [d |-> [dr EXCEPT !.Id = rsp.ID, !.origin = "CreateUpdate"], ret |-> "continue"]

(***************************************************************************)
(* line 94: the handler returns resourceApiManagementAPIPolicyRead(d,      *)
(* meta), the Read handler of the API policy resource.  It may return an   *)
(* error, find nothing and clear the id, or return nil; it sets neither    *)
(* tag_id nor display_name.                                                *)
(***************************************************************************)
APIPolicyReadOutcomes == {"error", "gone", "ok"}

RefreshStep(dr, outcome) ==
    CASE outcome = "error" -> [d |-> dr, ret |-> "RefreshFailed"]
      [] outcome = "gone" -> [d |-> [dr EXCEPT !.Id = EmptyStr], ret |-> "ok"]
      [] OTHER -> [d |-> dr, ret |-> "ok"]

(***************************************************************************)
(* resourceApiManagementTagRead and resourceApiManagementTagDelete.        *)
(* parse.TagId has no ServiceName field and TagID assigns none, so the     *)
(* value read by "serviceName := id.ServiceName" is not determined by the  *)
(* handle: it is any of UnsetServiceNames.                                 *)
(***************************************************************************)
UnsetServiceNames == ServiceNames \cup {EmptyStr}

\* Read with a 404 treated like any other failure of Get.
ReadStep_NotFoundIsError(dr, id, serviceName, rsp) ==
    IF rsp.err # "" THEN [d |-> dr, ret |-> "RemoteCallFailed"]
    ELSE [d |-> [dr EXCEPT !.state =
                    [tag_id |-> id.Name,
                     api_management_name |-> serviceName,
                     resource_group_name |-> id.ResourceGroup,
                     display_name |-> IF rsp.hasProps THEN rsp.DisplayName
                                      ELSE dr.state.display_name]],
          ret |-> "ok"]

\* lines 111-130, after the handle parsed to id and Get answered rsp
ReadStep(dr, id, serviceName, rsp) ==
    IF rsp.err # "" THEN
        IF ResponseWasNotFound(rsp)
          THEN [d |-> [dr EXCEPT !.Id = EmptyStr], ret |-> "ok"]
          ELSE [d |-> dr, ret |-> "RemoteCallFailed"]
    ELSE [d |-> [dr EXCEPT !.state =
                    [tag_id |-> id.Name,
                     api_management_name |-> serviceName,
                     resource_group_name |-> id.ResourceGroup,
                     display_name |-> IF rsp.hasProps THEN rsp.DisplayName
                                      ELSE dr.state.display_name]],
          ret |-> "ok"]

\* Delete with a 404 treated like any other failure.
DeleteStep_NotFoundIsError(rsp) == IF rsp.err # "" THEN "RemoteCallFailed" ELSE "ok"

\* lines 147-154, after the handle parsed and Delete answered rsp
DeleteStep(rsp) ==
    IF rsp.err # "" /\ ~ResponseWasNotFound(rsp) THEN "RemoteCallFailed" ELSE "ok"

(***************************************************************************)
(* Actions of the reconciler.  A handler that issues several remote calls  *)
(* takes one step per call, so that handlers of other instances and the    *)
(* remote side may act in between.                                         *)
(***************************************************************************)
Finish(r, ret) ==
    /\ pc' = [pc EXCEPT ![r] = "idle"]
    /\ result' = [result EXCEPT ![r] = ret]

Goto(r, where) ==
    /\ pc' = [pc EXCEPT ![r] = where]
    /\ UNCHANGED result

\* A remote call that is issued a second time.
Issue_Retry(r, c, rsp) ==
    /\ calls' = [calls EXCEPT ![r] = Append(Append(@, c), c)]
    /\ resp' = [resp EXCEPT ![r] = rsp]

Issue(r, c, rsp) ==
    /\ calls' = [calls EXCEPT ![r] = Append(@, c)]
    /\ resp' = [resp EXCEPT ![r] = rsp]

\* The handler without the test of d.IsNewResource(): the existence check
\* runs on an Update as well.
CreateUpdateBegin_AlwaysPrecheck(r, dn) ==
    /\ pc[r] = "idle"
    /\ d' = [d EXCEPT ![r].config.display_name = dn]
    /\ op' = [op EXCEPT ![r] = [name |-> IF d[r].Id = EmptyStr THEN "create" ELSE "update",
                                startId |-> d[r].Id]]
    /\ pc' = [pc EXCEPT ![r] = "precheck"]
    /\ calls' = [calls EXCEPT ![r] = <<>>]
    /\ resp' = [resp EXCEPT ![r] = NoResponse]
    /\ result' = [result EXCEPT ![r] = "running"]
    /\ UNCHANGED remote
    /\ UNCHANGED codecVars

\* lines 52-62: a Create (no id yet) or an Update (id set) of instance r
\* with display_name dn in the configuration.
CreateUpdateBegin(r, dn) ==
    /\ pc[r] = "idle"
    /\ d' = [d EXCEPT ![r].config.display_name = dn]
    /\ op' = [op EXCEPT ![r] = [name |-> IF d[r].Id = EmptyStr THEN "create" ELSE "update",
                                startId |-> d[r].Id]]
    /\ pc' = [pc EXCEPT ![r] = IF d[r].Id = EmptyStr THEN "precheck" ELSE "put"]
    /\ calls' = [calls EXCEPT ![r] = <<>>]
    /\ resp' = [resp EXCEPT ![r] = NoResponse]
    /\ result' = [result EXCEPT ![r] = "running"]
    /\ UNCHANGED remote
    /\ UNCHANGED codecVars

CreateUpdatePrecheck(r) ==
    /\ pc[r] = "precheck"
    /\ \E existing \in GetResponses(ConfigAddr(d[r])) :
          /\ Issue(r, Call("Get", ConfigAddr(d[r])), existing)
          /\ IF PrecheckStep(existing) = "continue"
               THEN Goto(r, "put")
               ELSE Finish(r, PrecheckStep(existing))
    /\ UNCHANGED <<d, remote, op>>
    /\ UNCHANGED codecVars

CreateUpdatePut(r) ==
    /\ pc[r] = "put"
    /\ \E rsp \in PutResponses :
          /\ Issue(r, Call("CreateOrUpdate", ConfigAddr(d[r])), rsp)
          /\ remote' = IF rsp.err = ""
                         THEN [remote EXCEPT ![ConfigAddr(d[r])] =
                                  Present(d[r].config.display_name)]
                         ELSE remote
          /\ IF PutStep(rsp) = "continue"
               THEN Goto(r, "get")
               ELSE Finish(r, PutStep(rsp))
    /\ UNCHANGED <<d, op>>
    /\ UNCHANGED codecVars

CreateUpdateConfirm(r) ==
    /\ pc[r] = "get"
    /\ \E rsp \in GetResponses(ConfigAddr(d[r])) :
          LET out == ConfirmStep(d[r], rsp)
          IN  /\ Issue(r, Call("Get", ConfigAddr(d[r])), rsp)
              /\ d' = [d EXCEPT ![r] = out.d]
              /\ IF out.ret = "continue"
                   THEN Goto(r, "refresh")
                   ELSE Finish(r, out.ret)
    /\ UNCHANGED <<remote, op>>
    /\ UNCHANGED codecVars

CreateUpdateRefresh(r) ==
    /\ pc[r] = "refresh"
    /\ \E outcome \in APIPolicyReadOutcomes :
          LET out == RefreshStep(d[r], outcome)
          IN  /\ d' = [d EXCEPT ![r] = out.d]
              /\ Finish(r, out.ret)
    /\ UNCHANGED <<remote, op, calls, resp>>
    /\ UNCHANGED codecVars

Begin(r, name) ==
    /\ pc[r] = "idle"
    /\ d[r].Id # EmptyStr
    /\ op' = [op EXCEPT ![r] = [name |-> name, startId |-> d[r].Id]]

\* Read with the error of parse.TagID dropped: the Get is issued with
\* whatever the parser returned.
Read_IgnoresParseError(r) ==
    /\ Begin(r, "read")
    /\ LET p == TagID(d[r].Id)
       IN  \E serviceName \in UnsetServiceNames :
             LET a == Addr(p.id.ResourceGroup, serviceName, p.id.Name)
             IN  \E rsp \in GetResponses(a) :
                   LET out == ReadStep(d[r], p.id, serviceName, rsp)
                   IN  /\ calls' = [calls EXCEPT ![r] = <<Call("Get", a)>>]
                       /\ resp' = [resp EXCEPT ![r] = rsp]
                       /\ d' = [d EXCEPT ![r] = out.d]
                       /\ Finish(r, out.ret)
    /\ UNCHANGED remote
    /\ UNCHANGED codecVars

\* lines 97-131
Read(r) ==
    /\ Begin(r, "read")
    /\ LET p == TagID(d[r].Id)
       IN  IF ~p.ok
             THEN /\ Finish(r, "MalformedIdentifier")
                  /\ calls' = [calls EXCEPT ![r] = <<>>]
                  /\ resp' = [resp EXCEPT ![r] = NoResponse]
                  /\ UNCHANGED d
             ELSE \E serviceName \in UnsetServiceNames :
                    LET a == Addr(p.id.ResourceGroup, serviceName, p.id.Name)
                    IN  \E rsp \in GetResponses(a) :
                          LET out == ReadStep(d[r], p.id, serviceName, rsp)
                          IN  /\ calls' = [calls EXCEPT ![r] = <<Call("Get", a)>>]
                              /\ resp' = [resp EXCEPT ![r] = rsp]
                              /\ d' = [d EXCEPT ![r] = out.d]
                              /\ Finish(r, out.ret)
    /\ UNCHANGED remote
    /\ UNCHANGED codecVars

\* lines 133-155
Delete(r) ==
    /\ Begin(r, "delete")
    /\ LET p == TagID(d[r].Id)
       IN  IF ~p.ok
             THEN /\ Finish(r, "MalformedIdentifier")
                  /\ calls' = [calls EXCEPT ![r] = <<>>]
                  /\ resp' = [resp EXCEPT ![r] = NoResponse]
                  /\ UNCHANGED remote
             ELSE \E serviceName \in UnsetServiceNames :
                    LET a == Addr(p.id.ResourceGroup, serviceName, p.id.Name)
                    IN  \E rsp \in DeleteResponses(a) :
                          /\ calls' = [calls EXCEPT ![r] = <<Call("Delete", a)>>]
                          /\ resp' = [resp EXCEPT ![r] = rsp]
                          /\ remote' = IF rsp.err = "" THEN [remote EXCEPT ![a] = Absent]
                                       ELSE remote
                          /\ Finish(r, DeleteStep(rsp))
    /\ UNCHANGED d
    /\ UNCHANGED codecVars

(***************************************************************************)
(* The surroundings: pluginsdk.DefaultImporter (line 27) stores whatever   *)
(* id it is given, and the remote tag may be removed by someone else.      *)
(***************************************************************************)
ImportIds(dr) ==
    {ID(NewTagID(Subscription, dr.config.resource_group_name, dr.config.tag_id)),
     RemoteID(Subscription, dr.config.resource_group_name,
              dr.config.api_management_name, dr.config.tag_id),
     <<Slash, "tags">>}

Import(r, id) ==
    /\ pc[r] = "idle"
    /\ d[r].Id = EmptyStr
    /\ id \in ImportIds(d[r])
    /\ d' = [d EXCEPT ![r].Id = id, ![r].origin = "import"]
    /\ UNCHANGED <<remote, pc, op, calls, resp, result>>
    /\ UNCHANGED codecVars

CreatedOutOfBand(a, dn) ==
    /\ ~remote[a].exists
    /\ remote' = [remote EXCEPT ![a] = Present(dn)]
    /\ UNCHANGED <<d, pc, op, calls, resp, result>>
    /\ UNCHANGED codecVars

RemovedOutOfBand(a) ==
    /\ remote[a].exists
    /\ remote' = [remote EXCEPT ![a] = Absent]
    /\ UNCHANGED <<d, pc, op, calls, resp, result>>
    /\ UNCHANGED codecVars

(***************************************************************************)
(* Specifications.                                                         *)
(***************************************************************************)
InitCodec ==
    /\ identity = [subscriptionId |-> <<"sub1">>, resourceGroup |-> <<"rg1">>,
                   serviceName |-> <<"svc1">>, name |-> <<"tag1">>]
    /\ base = [s |-> EmptyStr, from |-> "none"]
    /\ input = EmptyStr
    /\ edits = <<>>
    /\ parsed = NotParsed

InitReconciler(config) ==
    /\ d = [r \in Res |-> [Id |-> EmptyStr, origin |-> "none", config |-> config[r],
                           state |-> NoState]]
    /\ remote = [a \in Addresses |-> Absent]
    /\ pc = [r \in Res |-> "idle"]
    /\ op = [r \in Res |-> [name |-> "none", startId |-> EmptyStr]]
    /\ calls = [r \in Res |-> <<>>]
    /\ resp = [r \in Res |-> NoResponse]
    /\ result = [r \in Res |-> "none"]

InstanceConfig(r) ==
    [tag_id |-> IF r = "r1" THEN <<"tag1">> ELSE <<"Tag2">>,
     resource_group_name |-> <<"rg1">>, api_management_name |-> <<"svc1">>,
     display_name |-> <<"Test Tag">>]

Init ==
    /\ InitCodec
    /\ InitReconciler([r \in Res |-> InstanceConfig(r)])

\* The steps of the instances in A and of the remote side.
NextOf(A) ==
    \/ \E r \in A, dn \in DisplayNames : CreateUpdateBegin(r, dn)
    \/ \E r \in A : CreateUpdatePrecheck(r)
    \/ \E r \in A : CreateUpdatePut(r)
    \/ \E r \in A : CreateUpdateConfirm(r)
    \/ \E r \in A : CreateUpdateRefresh(r)
    \/ \E r \in A : Read(r)
    \/ \E r \in A : Delete(r)
    \/ \E r \in A : \E id \in ImportIds(d[r]) : Import(r, id)
    \/ \E a \in Addresses, dn \in DisplayNames : CreatedOutOfBand(a, dn)
    \/ \E a \in Addresses : RemovedOutOfBand(a)

\* One instance reconciled at a time, against a remote side that others change.
Next == NextOf({"r1"})

Spec == Init /\ [][Next]_vars

InitCodecSpec ==
    /\ InitCodec
    /\ InitReconciler([r \in Res |-> InstanceConfig(r)])

NextCodec ==
    \/ \E i \in Identities : Render(i)
    \/ \E i \in Identities : \E s \in Received(i) : Receive(i, s)
    \/ \E k \in ExtraKeys, v \in ExtraValues : AppendPair(k, v)
    \/ \E i \in 1..MaxPairs : DropPair(i)
    \/ \E i \in 1..MaxPairs : EmptyValue(i)
    \/ \E i \in 1..MaxPairs : RecaseKey(i)
    \/ Parse

SpecCodec == InitCodecSpec /\ [][NextCodec]_vars

(***************************************************************************)
(* Properties of the codec, checked under SpecCodec.                       *)
(***************************************************************************)
Pristine == base.from = "render" /\ edits = <<>>
WasParsed == parsed # NotParsed
MoreSegments == "ID contained more segments than a Resource ID requires"

\* The key/value pairs of a path, keys folded to lower case.
PathPairs(s) ==
    LET cs == Split(TrimPrefix(s))
    IN  {<<ToLower(cs[2 * i - 1]), cs[2 * i]>> : i \in 1..(Len(cs) \div 2)}
PathKeys(s) == {kv[1] : kv \in PathPairs(s)}

\* s has no segment with this key, or one whose value is empty.
Lacks(s, key) ==
    \/ key \notin PathKeys(s)
    \/ <<key, EmptyStr>> \in PathPairs(s)

RecognisedKeys == {<<"subscriptions">>, <<"resourcegroups">>, <<"providers">>, <<"tags">>}

\* The path the specification gives for an identity.
CanonicalPath(i) == RemoteID(i.subscriptionId, i.resourceGroup, i.serviceName, i.name)

\* C1: parsing the string rendered from a four-field identity succeeds and
\* gives back all four fields, serviceName included.
RoundTripFourFields ==
    (Pristine /\ WasParsed) =>
        /\ parsed.ok
        /\ parsed.id = [SubscriptionId |-> identity.subscriptionId,
                        ResourceGroup |-> identity.resourceGroup,
                        ServiceName |-> identity.serviceName,
                        Name |-> identity.name]

\* C2: the rendered string is exactly /subscriptions/{subscriptionId}/
\* resourceGroups/{resourceGroup}/providers/Microsoft.ApiManagement/service/
\* {serviceName}/tags/{name}.
RenderIsCanonical == Pristine => input = CanonicalPath(identity)

\* C5 as stated: a rendered or canonical string with one extra /type/value
\* pair appended never parses.
AnyExtraPairRejected ==
    (WasParsed /\ base.from \in {"render", "remote"}
       /\ Len(edits) = 1 /\ edits[1].kind = "append") => ~parsed.ok

\* C5 as amended: one extra /type/value pair whose type is none of the keys
\* already in the string makes TagID fail, with the more-segments error if
\* the string parsed before; and TagID succeeds only on strings in which no
\* segment remains besides subscriptions, resourceGroups, providers and tags.
ExtraNestingRejected ==
    WasParsed =>
        /\ (/\ base.from \in {"render", "remote"}
            /\ Len(edits) = 1 /\ edits[1].kind = "append"
            /\ ToLower(edits[1].key) \notin PathKeys(base.s))
           => (~parsed.ok /\ (base.from = "render" => parsed.err = MoreSegments))
        /\ parsed.ok => PathKeys(input) \subseteq RecognisedKeys

ExtraNestingWitness ==
    /\ WasParsed /\ base.from = "render"
    /\ edits = <<[kind |-> "append", key |-> <<"operations">>]>>
    /\ ~parsed.ok /\ parsed.err = MoreSegments

\* C6: TagID fails for every input that lacks the subscriptions, the
\* resourceGroups or the tags segment or has an empty value for it, and no
\* field of a TagId it returns is empty.
MissingSegmentsRejected ==
    WasParsed =>
        /\ (\E key \in {<<"subscriptions">>, <<"resourcegroups">>, <<"tags">>} :
               Lacks(input, key)) => ~parsed.ok
        /\ parsed.ok => /\ parsed.id.SubscriptionId # EmptyStr
                        /\ parsed.id.ResourceGroup # EmptyStr
                        /\ parsed.id.Name # EmptyStr

MissingSegmentsWitness ==
    /\ WasParsed /\ base.from = "render"
    /\ edits = <<[kind |-> "drop", key |-> <<"resourceGroups">>]>>
    /\ ~parsed.ok /\ parsed.err = "ID was missing the 'resourceGroups' element"

IsError(ret) == ret \notin {"ok", "continue", "running", "none"}
FullResponse(rsp) == rsp.err = "" /\ rsp.hasID /\ rsp.ID # EmptyStr
Issued(r, name) == \E n \in 1..Len(calls[r]) : calls[r][n].call = name

\* C3: when the Get of a new resource's existence check succeeds with a
\* non-empty id, the handler returns AlreadyExists at once: no createOrUpdate
\* call is issued, the remote side is untouched and no id is set.
CreateGuard ==
    [][\A r \in Res :
          (CreateUpdatePrecheck(r) /\ FullResponse(resp'[r])) =>
              /\ pc'[r] = "idle"
              /\ result'[r] = "AlreadyExists"
              /\ \A n \in 1..Len(calls'[r]) : calls'[r][n].call # "CreateOrUpdate"
              /\ remote' = remote
              /\ d'[r].Id = EmptyStr]_vars

CreateGuardWitness ==
    \E r \in Res :
        /\ pc[r] = "idle" /\ op[r].name = "create" /\ result[r] = "AlreadyExists"
        /\ FullResponse(resp[r]) /\ remote[ConfigAddr(d[r])].exists
        /\ calls[r] = <<Call("Get", ConfigAddr(d[r]))>>
        /\ d[r].Id = EmptyStr

\* C4: a Read or Delete that follows a successful Create-or-Update, on the id
\* it set, does not fail with MalformedIdentifier, and the id parses to the
\* resource group and name of the configuration.
CreatedHandleParses ==
    [][\A r \in Res :
          (/\ Read(r) \/ Delete(r)
           /\ op[r].name \in {"create", "update"} /\ result[r] = "ok"
           /\ d[r].origin = "CreateUpdate") =>
              /\ result'[r] # "MalformedIdentifier"
              /\ TagID(d[r].Id).id.ResourceGroup = d[r].config.resource_group_name
              /\ TagID(d[r].Id).id.Name = d[r].config.tag_id]_vars

\* C8: a Read whose handle parses and whose Get answers not-found returns
\* success and clears the id.
DropOnMissing ==
    [][\A r \in Res :
          (Read(r) /\ TagID(d[r].Id).ok /\ resp'[r].err = "notfound") =>
              (result'[r] = "ok" /\ d'[r].Id = EmptyStr)]_vars

DropOnMissingWitness ==
    \E r \in Res :
        /\ pc[r] = "idle" /\ op[r].name = "read" /\ TagID(op[r].startId).ok
        /\ resp[r].err = "notfound" /\ Len(calls[r]) = 1
        /\ result[r] = "ok" /\ d[r].Id = EmptyStr

\* C9: a Delete whose handle parses returns success when the remote delete
\* succeeds and when it answers not-found, and the tag it addressed is absent
\* afterwards.
IdempotentDelete ==
    [][\A r \in Res :
          (Delete(r) /\ TagID(d[r].Id).ok /\ resp'[r].err \in {"", "notfound"}) =>
              /\ result'[r] = "ok"
              /\ calls'[r][1].addr \in DOMAIN remote'
                    => ~remote'[calls'[r][1].addr].exists]_vars

IdempotentDeleteWitness ==
    \E r \in Res :
        /\ pc[r] = "idle" /\ op[r].name = "delete" /\ TagID(op[r].startId).ok
        /\ resp[r].err = "notfound" /\ calls[r][1].call = "Delete"
        /\ result[r] = "ok"

\* C10 as stated: whenever Create-or-Update returns an error, at any step,
\* the id is what it was when the handler started.
CreateUpdateAtomic ==
    [][\A r \in Res :
          (pc[r] # "idle" /\ pc'[r] = "idle" /\ IsError(result'[r])) =>
              d'[r].Id = op[r].startId]_vars

\* C10 as amended: an error returned by the existence check, by the
\* createOrUpdate call or by the confirming Get leaves the id as it was when
\* the handler started; the id is set only by the step whose confirming Get
\* succeeded with an id; an error of the final refresh is returned with that
\* id still set.
HandleSetAfterConfirm ==
    [][\A r \in Res :
          /\ (pc[r] \in {"precheck", "put", "get"} /\ pc'[r] = "idle") =>
                (IsError(result'[r]) /\ d'[r].Id = op[r].startId)
          /\ (pc[r] \in {"precheck", "put", "get"} /\ d'[r].Id # d[r].Id) =>
                (pc[r] = "get" /\ pc'[r] = "refresh" /\ resp'[r].err = ""
                   /\ resp'[r].hasID /\ d'[r].Id = resp'[r].ID)
          /\ (pc[r] = "refresh" /\ IsError(result'[r])) => d'[r].Id = d[r].Id]_vars

HandleSetAfterConfirmWitness ==
    \E r \in Res :
        /\ pc[r] = "idle" /\ op[r].name = "create" /\ result[r] = "RefreshFailed"
        /\ Len(calls[r]) = 3 /\ d[r].Id # EmptyStr /\ d[r].Id # op[r].startId

\* C11: when Create-or-Update returns success with an id set, the recorded
\* state shows the tag_id and display_name of the configuration; and a Read
\* that follows it directly, with the remote tag as the handler left it, does
\* not fail on the id and records that tag_id and display_name.
RefreshesOwnRecord ==
    [][\A r \in Res :
          /\ (CreateUpdateRefresh(r) /\ result'[r] = "ok" /\ d'[r].Id # EmptyStr) =>
                /\ d'[r].state.tag_id = d[r].config.tag_id
                /\ d'[r].state.display_name = d[r].config.display_name
          /\ (/\ Read(r)
              /\ op[r].name \in {"create", "update"} /\ result[r] = "ok"
              /\ d[r].origin = "CreateUpdate"
              /\ remote[ConfigAddr(d[r])] = Present(d[r].config.display_name)) =>
                /\ result'[r] # "MalformedIdentifier"
                /\ (resp'[r].err = "" /\ resp'[r].hasProps) =>
                      /\ d'[r].state.tag_id = d[r].config.tag_id
                      /\ d'[r].state.display_name = d[r].config.display_name]_vars

ConfirmDecides ==
    [][\A r \in Res :
          CreateUpdateConfirm(r) =>
              /\ resp'[r].err # "" =>
                    (result'[r] = "RemoteCallFailed" /\ d'[r].Id = d[r].Id)
              /\ (resp'[r].err = "" /\ ~resp'[r].hasID) =>
                    (result'[r] = "EmptyIdentity" /\ d'[r].Id = d[r].Id)
              /\ pc'[r] = "refresh" => d'[r].Id # EmptyStr]_vars

CallNames(r) == [n \in 1..Len(calls[r]) |-> calls[r][n].call]
IsPrefix(s, t) == Len(s) <= Len(t) /\ s = SubSeq(t, 1, Len(s))
CreateCalls == <<"Get", "CreateOrUpdate", "Get">>
UpdateCalls == <<"CreateOrUpdate", "Get">>

RejectedHandleNoCall ==
    [][\A r \in Res :
          (/\ Read(r) \/ Delete(r)
           /\ ~TagID(d[r].Id).ok) =>
              /\ result'[r] = "MalformedIdentifier"
              /\ calls'[r] = <<>>
              /\ d' = d
              /\ remote' = remote]_vars

RejectedHandleNoCallWitness ==
    \E r \in Res :
        /\ pc[r] = "idle" /\ op[r].name \in {"read", "delete"}
        /\ op[r].startId # EmptyStr /\ ~TagID(op[r].startId).ok
        /\ result[r] = "MalformedIdentifier" /\ calls[r] = <<>>
        /\ d[r].Id = op[r].startId

\* C16: an Update (the handler invoked with an id already set) never runs
\* the existence check and never returns AlreadyExists: the first call it
\* issues is createOrUpdate, at the address of the configuration.
UpdateSkipsGuard ==
    \A r \in Res :
        op[r].name = "update" =>
            /\ pc[r] # "precheck"
            /\ result[r] # "AlreadyExists"
            /\ calls[r] # <<>> => calls[r][1] = Call("CreateOrUpdate", ConfigAddr(d[r]))

UpdateSkipsGuardWitness ==
    \E r \in Res :
        /\ pc[r] = "idle" /\ op[r].name = "update" /\ op[r].startId # EmptyStr
        /\ result[r] = "ok" /\ remote[ConfigAddr(d[r])].exists
        /\ CallNames(r) = UpdateCalls

\* The service name and the address an id names: its "service" segment (none
\* when it has no such segment) with its resource group and tag name.
ServiceNameIn(id) == Lookup(ParseAzureResourceID(id).Path, <<"service">>)
HandleAddr(id) == Addr(TagID(id).id.ResourceGroup, ServiceNameIn(id), TagID(id).id.Name)

\* C17: a Read whose id parses and whose Get succeeds without
\* TagContractProperties returns success, records tag_id, api_management_name
\* and resource_group_name as the id names them, and records no
\* display_name, whatever was recorded before.
ReadWithoutProperties ==
    [][\A r \in Res :
          (/\ Read(r) /\ TagID(d[r].Id).ok
           /\ resp'[r].err = "" /\ ~resp'[r].hasProps) =>
              /\ result'[r] = "ok"
              /\ d'[r].state.tag_id = TagID(d[r].Id).id.Name
              /\ d'[r].state.resource_group_name = TagID(d[r].Id).id.ResourceGroup
              /\ d'[r].state.api_management_name = ServiceNameIn(d[r].Id)
              /\ d'[r].state.display_name = EmptyStr]_vars

\* C18: every call of a handler goes to one address: that of the
\* configuration in Create-or-Update, the one its id names in Read and
\* Delete; a handler changes the remote side at that address only and leaves
\* the ids and states of the other instances alone.
OneTriplePerOperation ==
    [][\A r \in Res :
          /\ \A n \in 1..Len(calls'[r]) :
                calls'[r][n].addr =
                    IF op'[r].name \in {"create", "update"} THEN ConfigAddr(d'[r])
                    ELSE HandleAddr(op'[r].startId)
          /\ CreateUpdatePut(r) =>
                \A a \in DOMAIN remote : a # ConfigAddr(d[r]) => remote'[a] = remote[a]
          /\ Delete(r) =>
                \A a \in DOMAIN remote : a # HandleAddr(d[r].Id) => remote'[a] = remote[a]
          /\ (\/ CreateUpdatePrecheck(r) \/ CreateUpdatePut(r) \/ CreateUpdateConfirm(r)
              \/ CreateUpdateRefresh(r) \/ Read(r) \/ Delete(r)) =>
                \A q \in Res \ {r} : d'[q] = d[q]]_vars

====
